---- MODULE Spec2Model ----
(***************************************************************************)
(* A model of AI-Commit (baiyuechuu/AI-Commit): the context budgeter of    *)
(* GitManager (src/src/git.js), the prompt selection and the message       *)
(* sanitizer of AIService (src/src/ai.js) and the run of AICommit          *)
(* (src/src/aicommit.js).                                                  *)
(*                                                                         *)
(* Texts whose content does not matter are modelled by their shape: a      *)
(* file content or a diff is [n, w], n lines of w characters each, and the *)
(* context blob is a sequence of segments, each with its kind, the         *)
(* ChangeSet line it belongs to and its length in characters.  Messages,   *)
(* whose characters matter to the sanitizer, are sequences of characters.  *)
(***************************************************************************)
EXTENDS Integers, Sequences, FiniteSets, TLC

VARIABLES
    pc,            \* position of the run
    config,        \* this.config: contextSizeLimit (0: unset), useGitmoji,
                   \* customPrompt (its length)
    options,       \* options: yes, push (undefined is FALSE)
    index0,        \* the staged ChangeSet when the run started
    index,         \* the staged ChangeSet (git diff --cached --name-status)
    head,          \* number of commits made on HEAD by the run
    pushed,        \* number of git push executed
    changes,       \* getGitChanges: changes
    diff,          \* getGitChanges: diff (its length in characters)
    lineNo,        \* getStagedFileContents: lines of the ChangeSet taken so far
    context,       \* getStagedFileContents: context
    calls,         \* git/file/stat commands issued per ChangeSet line
    prompts,       \* the inquirer prompts shown
    posts,         \* number of HTTP POSTs sent to the provider
    sent,          \* the prompt of the last POST
    commitMessage, \* run/handleUserInteraction: commitMessage
    committed,     \* the message given to git commit
    rounds,        \* Edit and Regenerate choices taken
    exitCode,      \* -1 while running, then the exit code of the process
    banner,        \* the error.message printed under run's error banner ("": none)
    env,           \* process.env: whether the provider's API key is set
    raw,           \* the provider's reply; sanitizer check: the input string
    once,          \* sanitizer check: cleanCommitMessage(raw)
    twice,         \* sanitizer check: cleanCommitMessage(once)
    totalFiles,    \* budget check: number of ChangeSet lines
    budget,        \* budget check: the derived allowances
    warnings,      \* earlier run: the list returned by validateCommitMessage
    estimates      \* estimator check: the two token estimates of a text

vars == <<pc, config, options, index0, index, head, pushed,
          changes, diff, lineNo, context, calls, prompts, posts, sent,
          commitMessage, committed, rounds, exitCode, banner,
          env, raw, once, twice, totalFiles, budget, warnings, estimates>>

----------------------------------------------------------------------------
(* Bounds of the model *)

MaxFiles == 2        \* ChangeSet lines when getStagedFileContents is checked alone
MaxRunFiles == 1     \* ChangeSet lines in a whole run
MaxRounds == 2       \* Edit/Regenerate choices in one run
MaxLen == 5          \* characters of a sanitizer input
MaxTotalFiles == 600 \* file counts of the budget check
SmallLimit == 25     \* a small configured contextSizeLimit
SmallSize == 1200    \* bytes of a small file
BigSize == 60000     \* bytes of a large file
ErrLen == 40         \* characters of an error.message
MaxMessageLen == 4   \* characters of a message wrapped in a fenced block
MaxTextLen == 400    \* characters of a text given to the two estimators
CustomLen == 20      \* characters of a configured customPrompt
MaxBuilds == 2       \* calls of the prompt builder on the same inputs
MaxReserveFiles == 3  \* ChangeSet lines when all but the first are deletions
EdgeWidth == 19890   \* characters of the line of EdgeText

Max(a, b) == IF a >= b THEN a ELSE b
Min(a, b) == IF a <= b THEN a ELSE b

RECURSIVE Digits(_)
Digits(n) == IF n < 10 THEN 1 ELSE 1 + Digits(n \div 10)

----------------------------------------------------------------------------
(* Texts by shape *)

Text(n, w) == [n |-> n, w |-> w]
Fail == Text(0, 0)                 \* the command threw
ShortText == Text(2, 10)
LongText == Text(700, 5)
HugeText == Text(1, 60000)
\* one line that leaves the blob of a diff-only entry just under the reserve
EdgeText == Text(1, EdgeWidth)
Texts == {ShortText, LongText, HugeText, EdgeText}

\* text.length
TextLen(t) == t.n * t.w + (t.n - 1)
\* text.split("\n").length
Lines(t) == t.n
\* text.split("\n").slice(0, k).join("\n")
Slice(t, k) == Text(Min(t.n, k), t.w)

----------------------------------------------------------------------------
(* GitManager: token estimate and budgets *)

ContextReserve == 5000
DefaultContextLimit == 40000
LargeThreshold == 50000
UnknownSize == 1000000

estimateTokens(len) == (len + 3) \div 4

AIService_estimateTokensFloor(len) == len \div 4

\* ai.js lines 543-545: Math.ceil(text.length / 4)
AIService_estimateTokens(len) == (len + 3) \div 4

NoEstimates == [git |-> -1, ai |-> -1]

maxContextPerFileNoFloor(n) == ContextReserve \div n

maxContextPerFile(n) == Max(10, ContextReserve \div n)
maxLinesPerFile(n) == Max(5, maxContextPerFile(n) \div 4)
maxDiffLinesWhole(n) == Max(10, maxLinesPerFile(n))

maxDiffLines(n) == Max(10, maxLinesPerFile(n) \div 2)
linesPerSectionHalf(n) == Max(3, maxLinesPerFile(n) \div 2)

linesPerSection(n) == Max(3, maxLinesPerFile(n) \div 3)

budgetOf(n) == [maxContextPerFile |-> maxContextPerFile(n),
                maxLinesPerFile |-> maxLinesPerFile(n),
                maxDiffLines |-> maxDiffLines(n),
                linesPerSection |-> linesPerSection(n)]

----------------------------------------------------------------------------
(* The context blob: a sequence of segments *)

\* k: kind; f: ChangeSet line (0: none); len: characters; body: "content"
\* (fetched text), "placeholder" or "none"; cut: the line-truncation marker
\* was appended; whole: substring kept all of it
Seg(k, f, len, body, cut) ==
    [k |-> k, f |-> f, len |-> len, body |-> body, cut |-> cut, whole |-> TRUE,
     lines |-> 0, total |-> 0]

RECURSIVE CtxLen(_)
CtxLen(c) == IF c = <<>> THEN 0 ELSE Head(c).len + CtxLen(Tail(c))

\* context.substring(0, maxChars)
RECURSIVE substring(_, _)
substring(c, maxChars) ==
    IF c = <<>> \/ maxChars <= 0 THEN <<>>
    ELSE IF Head(c).len <= maxChars
         THEN <<Head(c)>> \o substring(Tail(c), maxChars - Head(c).len)
         ELSE <<[Head(c) EXCEPT !.len = maxChars, !.whole = FALSE]>>

TitleLen == 25
HeaderLen == 12
DeletedLen == 16
BinaryLen == 37
NoDiffLen == 20
NewFileLen == 33
LargeTagLen == 25
FileSizeLen == 14
DiffLabelLen == 6
OriginalLabelLen == 32
StagedLabelLen == 29
DetailedDiffLabelLen == 15
DiffCutLen == 46
CutLen == 38
ErrorLen == 28
MarkerLen == 71

Title == Seg("title", 0, TitleLen, "none", FALSE)
Marker == Seg("marker", 0, MarkerLen, "none", FALSE)

tokenLimitOf(limit) == IF limit # 0 THEN limit ELSE DefaultContextLimit

limitContextSizeHalving(c, limit) ==
    LET tokenLimit == tokenLimitOf(limit)
        currentTokens == estimateTokens(CtxLen(c))
    IN IF currentTokens <= tokenLimit THEN c
       ELSE substring(c, CtxLen(c) \div 2) \o <<Marker>>

limitContextSizeQuarter(c, limit) ==
    LET tokenLimit == tokenLimitOf(limit)
        currentTokens == estimateTokens(CtxLen(c))
    IN IF currentTokens <= tokenLimit THEN c
       ELSE substring(c, tokenLimit) \o <<Marker>>

limitContextSize(c, limit) ==
    LET tokenLimit == tokenLimitOf(limit)
        currentTokens == estimateTokens(CtxLen(c))
        maxChars == tokenLimit * 4
    IN IF currentTokens <= tokenLimit THEN c
       ELSE substring(c, maxChars) \o <<Marker>>

----------------------------------------------------------------------------
(* The ChangeSet and the answers of the commands *)

Paths == { [name |-> "src/auth.js", len |-> 11, ext |-> ".js"],
           [name |-> "logo.png", len |-> 8, ext |-> ".png"],
           [name |-> "lib/types.ts", len |-> 12, ext |-> ".ts"] }
Statuses == {"M", "D"}
ChangeLines == [status : Statuses, path : Paths]

ChangeSets(maxN) ==
    UNION { { cs \in [1..n -> ChangeLines] :
                \A a, b \in 1..n : a # b => cs[a].path # cs[b].path } : n \in 1..maxN }

binaryExtensions ==
    { ".exe", ".dll", ".so", ".dylib", ".bin", ".dat", ".zip", ".tar", ".gz", ".rar", ".7z",
      ".png", ".jpg", ".jpeg", ".gif", ".bmp", ".ico", ".svg", ".webp", ".tiff",
      ".pdf", ".doc", ".docx", ".xls", ".xlsx", ".ppt", ".pptx",
      ".mp3", ".mp4", ".avi", ".mov", ".wmv", ".flv", ".mkv",
      ".db", ".sqlite", ".sqlite3", ".mdb", ".accdb",
      ".jar", ".war", ".ear", ".class", ".pyc", ".o", ".a", ".lib",
      ".psd", ".ai", ".eps", ".indd", ".sketch", ".xcf", ".heic", ".apng",
      ".wav", ".aiff", ".flac", ".ogg", ".m4a", ".mid", ".midi",
      ".iso", ".img", ".vmdk", ".vhd", ".dmg", ".pkg", ".msi",
      ".swf", ".fla", ".3gp", ".webm", ".ts", ".m2ts", ".mts",
      ".arj", ".bz2", ".lz", ".lzma", ".xz", ".cab", ".rpm", ".deb", ".z", ".cpio",
      ".ttf", ".otf", ".woff", ".woff2", ".eot",
      ".cr2", ".nef", ".orf", ".sr2", ".raw", ".dng", ".rw2", ".pef", ".arw",
      ".ics", ".pst", ".ost", ".msg", ".eml" }

\* what `file -b` answers: it fails, or its output mentions one of these words
BinaryWords == {"binary", "executable", "image", "archive"}
Probes == {"fail", "text"} \cup BinaryWords

isBinaryFileProbeOnly(probe, path) == probe \in BinaryWords

isBinaryFile(probe, path) ==
    IF probe # "fail" THEN probe \in BinaryWords
    ELSE path.ext \in binaryExtensions

\* what `stat -c%s` (or, when it fails, `stat -f%z`) answers: -1 when both fail
SizeAnswers == {-1, SmallSize, BigSize}

fileSizeOf(stat) == IF stat # -1 THEN stat ELSE UnknownSize

isLargeFile(fileSize) == fileSize > LargeThreshold

isDeletedLowerCase(line) == line.status = "d"

isDeleted(line) == line.status = "D"

\* (fileSize / 1024).toFixed(1): its number of characters
KBLen(fileSize) == Digits(((fileSize * 20 + 1024) \div 2048) \div 10) + 2

Header(i, line) == Seg("header", i, HeaderLen + line.path.len + 1, "none", FALSE)

\* label + (text, or its first cap lines and the truncation marker) + "\n\n"
Section(k, i, labelLen, t, fetched, cap, cutLen) ==
    LET cut == Lines(t) > cap
        shown == IF cut THEN TextLen(Slice(t, cap)) + cutLen + Digits(cap)
                 ELSE TextLen(t)
    IN [Seg(k, i, labelLen + shown + 2,
            IF fetched THEN "content" ELSE "placeholder", cut)
        EXCEPT !.lines = Min(Lines(t), cap), !.total = Lines(t)]

\* the value a command yields, or the placeholder the catch puts in its place
OrElse(t, placeholderLen) == IF t = Fail THEN Text(1, placeholderLen) ELSE t

deletedEntry(i, line) ==
    <<Header(i, line), Seg("deleted", i, DeletedLen, "placeholder", FALSE)>>

binaryEntry(i, line) ==
    <<Header(i, line), Seg("binary", i, BinaryLen, "placeholder", FALSE)>>

largeEntry(i, line, n, fileSize, fileDiff) ==
    <<Header(i, line),
      Seg("largeTag", i, LargeTagLen + FileSizeLen + KBLen(fileSize), "none", FALSE),
      Section("diff", i, DiffLabelLen, OrElse(fileDiff, NoDiffLen), fileDiff # Fail,
              maxDiffLines(n), DiffCutLen)>>

smallEntry(i, line, n, originalContent, stagedContent, fileDiff) ==
    <<Header(i, line),
      Section("original", i, OriginalLabelLen, OrElse(originalContent, NewFileLen),
              originalContent # Fail, linesPerSection(n), CutLen),
      Section("staged", i, StagedLabelLen, stagedContent, TRUE,
              linesPerSection(n), CutLen),
      Section("diff", i, DetailedDiffLabelLen, OrElse(fileDiff, NoDiffLen),
              fileDiff # Fail, linesPerSection(n), CutLen)>>

errorEntryHeaderOnly(i, line) == <<Header(i, line)>>

errorEntry(i, line) ==
    <<Header(i, line), Seg("error", i, ErrorLen + ErrLen, "placeholder", FALSE)>>

----------------------------------------------------------------------------
(* AIService.cleanCommitMessage on sequences of characters *)

Whitespace == {" ", "\n", "\t"}
WordChars ==
    { "a", "b", "c", "d", "e", "f", "g", "h", "i", "j", "k", "l", "m", "n", "o",
      "p", "q", "r", "s", "t", "u", "v", "w", "x", "y", "z",
      "A", "B", "C", "D", "E", "F", "G", "H", "I", "J", "K", "L", "M", "N", "O",
      "P", "Q", "R", "S", "T", "U", "V", "W", "X", "Y", "Z",
      "0", "1", "2", "3", "4", "5", "6", "7", "8", "9", "_" }

\* the character U+0060, which a string of this language cannot hold
Backtick == "BACKTICK"

\* the character at i, "" outside the string
At(s, i) == IF i \in 1..Len(s) THEN s[i] ELSE ""
Sub(s, a, b) == SubSeq(s, a, b)
AtLineStart(s, i) == i = 1 \/ At(s, i - 1) = "\n"
AtLineEnd(s, i) == i = Len(s) + 1 \/ At(s, i) = "\n"
FenceAt(s, i) == At(s, i) = Backtick /\ At(s, i + 1) = Backtick /\ At(s, i + 2) = Backtick

\* String.prototype.trim
RECURSIVE trimStart(_)
trimStart(s) ==
    IF s # <<>> /\ Head(s) \in Whitespace THEN trimStart(Tail(s)) ELSE s
RECURSIVE trimEnd(_)
trimEnd(s) ==
    IF s # <<>> /\ s[Len(s)] \in Whitespace THEN trimEnd(Sub(s, 1, Len(s) - 1)) ELSE s
trim(s) == trimEnd(trimStart(s))

\* the first position from j that holds no character of the set
RECURSIVE SkipWhile(_, _, _)
SkipWhile(s, j, set) == IF At(s, j) \in set THEN SkipWhile(s, j + 1, set) ELSE j

\* the first position from j that holds c, 0 when a stop character or the end comes first
RECURSIVE Find(_, _, _, _)
Find(s, j, c, stops) ==
    IF j > Len(s) \/ (s[j] \in stops /\ s[j] # c) THEN 0
    ELSE IF s[j] = c THEN j
    ELSE Find(s, j + 1, c, stops)

\* the first position from j that holds "**" with no newline before it, 0 when none
RECURSIVE FindBold(_, _)
FindBold(s, j) ==
    IF j + 1 > Len(s) \/ s[j] = "\n" THEN 0
    ELSE IF s[j] = "*" /\ s[j + 1] = "*" THEN j
    ELSE FindBold(s, j + 1)

\* the first position from j that holds a character of the set, Len(s) + 1 when none
RECURSIVE SkipUntil(_, _, _)
SkipUntil(s, j, set) ==
    IF j > Len(s) \/ s[j] \in set THEN j ELSE SkipUntil(s, j + 1, set)

\* a fence pattern can only match at a backtick or at a newline: the
\* characters up to the next one are copied as they are
NextMark(s, i) == SkipUntil(s, i + 1, {Backtick, "\n"})

RECURSIVE removeOpeningFencesBare(_, _)
removeOpeningFencesBare(s, i) ==
    IF i > Len(s) THEN <<>>
    ELSE IF AtLineStart(s, i) /\ FenceAt(s, i)
         THEN removeOpeningFencesBare(s, IF At(s, i + 3) = "\n" THEN i + 4 ELSE i + 3)
         ELSE Sub(s, i, NextMark(s, i) - 1) \o removeOpeningFencesBare(s, NextMark(s, i))

\* replace(/^```[\w]*\n?/gm, "")
RECURSIVE removeOpeningFences(_, _)
removeOpeningFences(s, i) ==
    IF i > Len(s) THEN <<>>
    ELSE IF AtLineStart(s, i) /\ FenceAt(s, i)
         THEN LET j == SkipWhile(s, i + 3, WordChars)
              IN removeOpeningFences(s, IF At(s, j) = "\n" THEN j + 1 ELSE j)
         ELSE Sub(s, i, NextMark(s, i) - 1) \o removeOpeningFences(s, NextMark(s, i))

\* replace(/\n?```$/gm, "")
RECURSIVE removeClosingFences(_, _)
removeClosingFences(s, i) ==
    IF i > Len(s) THEN <<>>
    ELSE IF s[i] = "\n" /\ FenceAt(s, i + 1) /\ AtLineEnd(s, i + 4)
         THEN removeClosingFences(s, i + 4)
         ELSE IF FenceAt(s, i) /\ AtLineEnd(s, i + 3)
              THEN removeClosingFences(s, i + 3)
              ELSE Sub(s, i, NextMark(s, i) - 1) \o removeClosingFences(s, NextMark(s, i))

\* replace(/^```$/gm, "")
RECURSIVE removeFenceLines(_, _)
removeFenceLines(s, i) ==
    IF i > Len(s) THEN <<>>
    ELSE IF AtLineStart(s, i) /\ FenceAt(s, i) /\ AtLineEnd(s, i + 3)
         THEN removeFenceLines(s, i + 3)
         ELSE Sub(s, i, NextMark(s, i) - 1) \o removeFenceLines(s, NextMark(s, i))

\* replace(/\*\*(.*?)\*\*/g, "$1")
RECURSIVE removeBold(_, _)
removeBold(s, i) ==
    IF i > Len(s) THEN <<>>
    ELSE LET j == IF s[i] = "*" /\ At(s, i + 1) = "*" THEN FindBold(s, i + 2) ELSE 0
         IN IF j # 0 THEN Sub(s, i + 2, j - 1) \o removeBold(s, j + 2)
            ELSE <<s[i]>> \o removeBold(s, i + 1)

\* replace(/\*(.*?)\*/g, "$1")
RECURSIVE removeItalic(_, _)
removeItalic(s, i) ==
    IF i > Len(s) THEN <<>>
    ELSE LET j == IF s[i] = "*" THEN Find(s, i + 1, "*", {"\n"}) ELSE 0
         IN IF j # 0 THEN Sub(s, i + 1, j - 1) \o removeItalic(s, j + 1)
            ELSE <<s[i]>> \o removeItalic(s, i + 1)

\* replace(/`([^`]*)`/g, "$1")
RECURSIVE removeInlineCode(_, _)
removeInlineCode(s, i) ==
    IF i > Len(s) THEN <<>>
    ELSE LET j == IF s[i] = Backtick THEN Find(s, i + 1, Backtick, {}) ELSE 0
         IN IF j # 0 THEN Sub(s, i + 1, j - 1) \o removeInlineCode(s, j + 1)
            ELSE <<s[i]>> \o removeInlineCode(s, i + 1)

\* replace(/^#{1,6}\s+/gm, "")
RECURSIVE removeHeaders(_, _)
removeHeaders(s, i) ==
    IF i > Len(s) THEN <<>>
    ELSE LET h == SkipWhile(s, i, {"#"})
             j == SkipWhile(s, h, Whitespace)
         IN IF AtLineStart(s, i) /\ h > i /\ h - i <= 6 /\ j > h
            THEN removeHeaders(s, j)
            ELSE <<s[i]>> \o removeHeaders(s, i + 1)

\* split("\n")
RECURSIVE split(_)
split(s) ==
    LET j == Find(s, 1, "\n", {})
    IN IF j = 0 THEN <<s>>
       ELSE <<Sub(s, 1, j - 1)>> \o split(Sub(s, j + 1, Len(s)))

\* join("\n")
RECURSIVE join(_)
join(ls) ==
    IF ls = <<>> THEN <<>>
    ELSE IF Len(ls) = 1 THEN ls[1]
    ELSE ls[1] \o <<"\n">> \o join(Tail(ls))

\* lines.map((line) => line.trim()).filter((line) => line.length > 0)
RECURSIVE cleanLines(_)
cleanLines(ls) ==
    IF ls = <<>> THEN <<>>
    ELSE LET line == trim(Head(ls))
         IN (IF Len(line) > 0 THEN <<line>> ELSE <<>>) \o cleanLines(Tail(ls))

cleanCommitMessage(message) ==
    LET c0 == trim(message)
        c1 == removeOpeningFences(c0, 1)
        c2 == removeClosingFences(c1, 1)
        c3 == removeFenceLines(c2, 1)
        c4 == removeBold(c3, 1)
        c5 == removeItalic(c4, 1)
        c6 == removeInlineCode(c5, 1)
        c7 == removeHeaders(c6, 1)
        cleaned == trim(c7)
    IN join(cleanLines(split(cleaned)))

----------------------------------------------------------------------------
(* GitManager.getStagedFileContents: one action per way through the loop body *)

InLoop == pc = "loop" /\ lineNo < Len(changes)

frameOfLoop == UNCHANGED <<config, options, index0, index, head,
                           pushed, changes, diff, prompts, posts, sent,
                           commitMessage, committed, rounds, exitCode, banner,
                           env, raw, once, twice, totalFiles, budget, warnings, estimates>>

\* a command issued for line i and how it ended
Call(cmd, i, result) == [cmd |-> cmd, line |-> i, result |-> result]
Ended(t) == IF t = Fail THEN "fail" ELSE "ok"

\* `file -b`: "fail", "binary" (the output mentions a word of BinaryWords) or "text"
probeCall(i, probe) ==
    {Call("file", i, IF probe \in BinaryWords THEN "binary" ELSE probe)}
statCall(i, stat) ==
    {Call("stat", i, CASE stat = -1 -> "fail"
                       [] stat = SmallSize -> "SmallSize"
                       [] stat = BigSize -> "BigSize")}

\* lines 233-237: the running total is checked after a large or small entry
CheckTotal(c) ==
    IF estimateTokens(CtxLen(c)) > ContextReserve
    THEN /\ context' = limitContextSize(c, config.contextSizeLimit)
         /\ pc' = "break"
    ELSE /\ context' = c
         /\ pc' = "loop"

SkipDeletedGrouped ==
    /\ InLoop
    /\ LET i == lineNo + 1
           line == changes[i]
       IN /\ isDeleted(line)
          /\ context' = <<Head(context)>> \o deletedEntry(i, line) \o Tail(context)
          /\ lineNo' = i
    /\ UNCHANGED <<pc, calls>>
    /\ frameOfLoop

\* lines 119-125
SkipDeleted ==
    /\ InLoop
    /\ LET i == lineNo + 1
           line == changes[i]
       IN /\ isDeleted(line)
          /\ context' = context \o deletedEntry(i, line)
          /\ lineNo' = i
    /\ UNCHANGED <<pc, calls>>
    /\ frameOfLoop

\* lines 119-132
SkipBinary ==
    /\ InLoop
    /\ LET i == lineNo + 1
           line == changes[i]
       IN /\ ~isDeleted(line)
          /\ \E probe \in Probes :
                /\ isBinaryFile(probe, line.path)
                /\ calls' = calls \cup probeCall(i, probe)
          /\ context' = context \o binaryEntry(i, line)
          /\ lineNo' = i
    /\ UNCHANGED pc
    /\ frameOfLoop

\* lines 119-176 and 233-237
LargeFile ==
    /\ InLoop
    /\ LET i == lineNo + 1
           line == changes[i]
       IN /\ ~isDeleted(line)
          /\ \E probe \in Probes, stat \in SizeAnswers, fileDiff \in Texts \cup {Fail} :
                LET fileSize == fileSizeOf(stat)
                IN /\ ~isBinaryFile(probe, line.path)
                   /\ isLargeFile(fileSize)
                   /\ calls' = calls \cup probeCall(i, probe) \cup statCall(i, stat)
                                     \cup {Call("git diff --cached", i, Ended(fileDiff))}
                   /\ CheckTotal(context \o largeEntry(i, line, Len(changes),
                                                        fileSize, fileDiff))
          /\ lineNo' = i
    /\ frameOfLoop

\* lines 119-150, 177-237: the three texts of a file have the shape of its
\* staged content, unless `git show HEAD:` or `git diff --cached` fails
SmallFile ==
    /\ InLoop
    /\ LET i == lineNo + 1
           line == changes[i]
       IN /\ ~isDeleted(line)
          /\ \E probe \in Probes, stat \in SizeAnswers,
                stagedContent \in Texts, isNew, noDiff \in BOOLEAN :
                LET fileSize == fileSizeOf(stat)
                    originalContent == IF isNew THEN Fail ELSE stagedContent
                    fileDiff == IF noDiff THEN Fail ELSE stagedContent
                IN /\ ~isBinaryFile(probe, line.path)
                   /\ ~isLargeFile(fileSize)
                   /\ calls' = calls \cup probeCall(i, probe) \cup statCall(i, stat)
                                     \cup {Call("git show HEAD:", i, Ended(originalContent)),
                                           Call("git show :", i, "ok"),
                                           Call("git diff --cached", i, Ended(fileDiff))}
                   /\ CheckTotal(context \o smallEntry(i, line, Len(changes),
                                    originalContent, stagedContent, fileDiff))
          /\ lineNo' = i
    /\ frameOfLoop

\* lines 119-150, 177-194 and the catch of lines 238-241: `git show :file` throws
ReadError ==
    /\ InLoop
    /\ LET i == lineNo + 1
           line == changes[i]
       IN /\ ~isDeleted(line)
          /\ \E probe \in Probes, stat \in SizeAnswers, isNew \in BOOLEAN :
                /\ ~isBinaryFile(probe, line.path)
                /\ ~isLargeFile(fileSizeOf(stat))
                /\ calls' = calls \cup probeCall(i, probe) \cup statCall(i, stat)
                                  \cup {Call("git show HEAD:", i, IF isNew THEN "fail" ELSE "ok"),
                                        Call("git show :", i, "fail")}
          /\ context' = context \o errorEntry(i, line)
          /\ lineNo' = i
    /\ UNCHANGED pc
    /\ frameOfLoop

\* lines 244-245: the loop is over, by its end or by the break
ReturnContext ==
    /\ \/ pc = "loop" /\ lineNo = Len(changes)
       \/ pc = "break"
    /\ context' = limitContextSize(context, config.contextSizeLimit)
    /\ pc' = "collected"
    /\ UNCHANGED <<lineNo, calls>>
    /\ frameOfLoop

NextCtx ==
    \/ SkipDeleted
    \/ SkipBinary
    \/ LargeFile
    \/ SmallFile
    \/ ReadError
    \/ ReturnContext

----------------------------------------------------------------------------
(* getStagedFileContents(changes) on its own *)

ContextLimits == {0, 10000, SmallLimit}

NoMessage == <<>>
NoPrompt == [kind |-> "none", feedback |-> 0, parts |-> <<>>]

InitCtx ==
    /\ pc = "loop"
    /\ config \in [contextSizeLimit : ContextLimits, useGitmoji : {FALSE},
                   customPrompt : {0}]
    /\ options = [yes |-> FALSE, push |-> FALSE]
    /\ changes \in ChangeSets(MaxFiles)
    /\ index0 = changes
    /\ index = changes
    /\ head = 0
    /\ pushed = 0
    /\ diff = 0
    /\ lineNo = 0
    /\ context = <<Title>>
    /\ calls = {}
    /\ prompts = {}
    /\ posts = 0
    /\ sent = NoPrompt
    /\ env = [apiKey |-> TRUE]
    /\ commitMessage = NoMessage
    /\ committed = NoMessage
    /\ rounds = 0
    /\ exitCode = -1
    /\ banner = ""
    /\ raw = <<>>
    /\ once = <<>>
    /\ twice = <<>>
    /\ totalFiles = 0
    /\ budget = budgetOf(1)
    /\ warnings = <<>>
    /\ estimates = NoEstimates

SpecCtx == InitCtx /\ [][NextCtx]_vars

----------------------------------------------------------------------------
(* getStagedFileContents on a ChangeSet whose lines after the first are deletions *)

DeletedTails ==
    { c \in ChangeSets(MaxReserveFiles) : \A i \in 2..Len(c) : c[i].status = "D" }

InitReserve ==
    /\ pc = "loop"
    /\ config \in [contextSizeLimit : ContextLimits, useGitmoji : {FALSE},
                   customPrompt : {0}]
    /\ options = [yes |-> FALSE, push |-> FALSE]
    /\ changes \in DeletedTails
    /\ index0 = changes
    /\ index = changes
    /\ head = 0
    /\ pushed = 0
    /\ diff = 0
    /\ lineNo = 0
    /\ context = <<Title>>
    /\ calls = {}
    /\ prompts = {}
    /\ posts = 0
    /\ sent = NoPrompt
    /\ env = [apiKey |-> TRUE]
    /\ commitMessage = NoMessage
    /\ committed = NoMessage
    /\ rounds = 0
    /\ exitCode = -1
    /\ banner = ""
    /\ raw = <<>>
    /\ once = <<>>
    /\ twice = <<>>
    /\ totalFiles = 0
    /\ budget = budgetOf(1)
    /\ warnings = <<>>
    /\ estimates = NoEstimates

SpecReserve == InitReserve /\ [][NextCtx]_vars

----------------------------------------------------------------------------
(* cleanCommitMessage applied to a string and to its own result *)

Alphabet == {"a", " ", "\n", "#", "*", Backtick}

Strings(maxLen) == UNION { [1..n -> Alphabet] : n \in 0..maxLen }

Idle ==
    /\ pc = "idle"
    /\ config = [contextSizeLimit |-> 0, useGitmoji |-> FALSE, customPrompt |-> 0]
    /\ options = [yes |-> FALSE, push |-> FALSE]
    /\ index0 = <<>>
    /\ index = <<>>
    /\ head = 0
    /\ pushed = 0
    /\ changes = <<>>
    /\ diff = 0
    /\ lineNo = 0
    /\ context = <<>>
    /\ calls = {}
    /\ prompts = {}
    /\ posts = 0
    /\ sent = NoPrompt
    /\ env = [apiKey |-> TRUE]
    /\ commitMessage = NoMessage
    /\ committed = NoMessage
    /\ rounds = 0
    /\ exitCode = -1
    /\ banner = ""

InitClean ==
    /\ Idle
    /\ raw \in Strings(MaxLen)
    /\ once = <<"?">>
    /\ twice = <<"?">>
    /\ totalFiles = 0
    /\ budget = budgetOf(1)
    /\ warnings = <<>>
    /\ estimates = NoEstimates

frameOfRun == UNCHANGED <<pc, config, options, index0, index, head, pushed, changes,
                          diff, lineNo, context, calls, prompts, posts, sent,
                          commitMessage, committed, rounds, exitCode,
                          banner, env>>

CleanOnce ==
    /\ pc = "idle"
    /\ once = <<"?">>
    /\ once' = cleanCommitMessage(raw)
    /\ UNCHANGED <<raw, twice, totalFiles, budget, warnings, estimates>>
    /\ frameOfRun

CleanTwice ==
    /\ pc = "idle"
    /\ once # <<"?">>
    /\ twice = <<"?">>
    /\ twice' = cleanCommitMessage(once)
    /\ UNCHANGED <<raw, once, totalFiles, budget, warnings, estimates>>
    /\ frameOfRun

NextClean == CleanOnce \/ CleanTwice

SpecClean == InitClean /\ [][NextClean]_vars

----------------------------------------------------------------------------
(* The budget of getStagedFileContents for every file count *)

InitBudget ==
    /\ Idle
    /\ raw = <<>>
    /\ once = <<>>
    /\ twice = <<>>
    /\ totalFiles \in 1..MaxTotalFiles
    /\ budget = [maxContextPerFile |-> 0, maxLinesPerFile |-> 0,
                 maxDiffLines |-> 0, linesPerSection |-> 0]
    /\ warnings = <<>>
    /\ estimates = NoEstimates

\* lines 111-113, 166 and 208
ComputeBudget ==
    /\ pc = "idle"
    /\ budget.maxContextPerFile = 0
    /\ budget' = budgetOf(totalFiles)
    /\ UNCHANGED <<raw, once, twice, totalFiles, warnings, estimates>>
    /\ frameOfRun

NextBudget == ComputeBudget

SpecBudget == InitBudget /\ [][NextBudget]_vars

----------------------------------------------------------------------------
(* AIService: the prompts, as sequences of parts with their lengths *)

SystemPromptLen == 76
IntroLen == 79
BetweenLen == 34
RichRulesLen == 1597
MinimalRulesLen == 1485
GitmojiRulesLen == 1411
FormatLen == 445
ContextIntroLen == 29
ContextOutroLen == 250
CustomIntroLen == 30
FeedbackIntroLen == 21
FeedbackOutroLen == 68
DefaultMaxTokens == 6666

Part(k, len) == [k |-> k, len |-> len, body |-> <<>>]

RECURSIVE PromptLen(_)
PromptLen(parts) ==
    IF parts = <<>> THEN 0 ELSE Head(parts).len + PromptLen(Tail(parts))

\* the length of the name-status listing: "M\tpath" per line, joined by "\n"
RECURSIVE ChangesLen(_)
ChangesLen(ch) ==
    IF ch = <<>> THEN 0
    ELSE 2 + Head(ch).path.len + (IF Len(ch) > 1 THEN 1 ELSE 0) + ChangesLen(Tail(ch))

gitmojiRules(useGitmoji) ==
    IF useGitmoji THEN <<Part("gitmojiRules", GitmojiRulesLen)>> ELSE <<>>

customPart(customPrompt) ==
    IF customPrompt # 0
    THEN <<Part("customIntro", CustomIntroLen), Part("custom", customPrompt)>>
    ELSE <<>>

feedbackPart(userFeedback) ==
    IF userFeedback # 0
    THEN <<Part("feedbackIntro", FeedbackIntroLen), Part("feedback", userFeedback),
           Part("feedbackOutro", FeedbackOutroLen)>>
    ELSE <<>>

\* lines 555-664
getMinimalPrompt(cfg, ch, d, userFeedback) ==
    <<Part("system", SystemPromptLen), Part("intro", IntroLen),
      Part("changes", ChangesLen(ch)), Part("between", BetweenLen), Part("diff", d),
      Part("rules", MinimalRulesLen)>>
    \o gitmojiRules(cfg.useGitmoji)
    \o <<Part("format", FormatLen)>>
    \o customPart(cfg.customPrompt)
    \o feedbackPart(userFeedback)

getCommitPromptCustomFirst(cfg, ch, d, ctx, userFeedback) ==
    <<Part("system", SystemPromptLen), Part("intro", IntroLen),
      Part("changes", ChangesLen(ch)), Part("between", BetweenLen), Part("diff", d),
      Part("rules", RichRulesLen)>>
    \o gitmojiRules(cfg.useGitmoji)
    \o <<Part("format", FormatLen)>>
    \o customPart(cfg.customPrompt)
    \o (IF ctx # <<>>
        THEN <<Part("contextIntro", ContextIntroLen),
               [k |-> "context", len |-> CtxLen(ctx), body |-> ctx],
               Part("contextOutro", ContextOutroLen)>>
        ELSE <<>>)
    \o feedbackPart(userFeedback)

\* lines 685-806
getCommitPrompt(cfg, ch, d, ctx, userFeedback) ==
    <<Part("system", SystemPromptLen), Part("intro", IntroLen),
      Part("changes", ChangesLen(ch)), Part("between", BetweenLen), Part("diff", d),
      Part("rules", RichRulesLen)>>
    \o gitmojiRules(cfg.useGitmoji)
    \o <<Part("format", FormatLen)>>
    \o (IF ctx # <<>>
        THEN <<Part("contextIntro", ContextIntroLen),
               [k |-> "context", len |-> CtxLen(ctx), body |-> ctx],
               Part("contextOutro", ContextOutroLen)>>
        ELSE <<>>)
    \o customPart(cfg.customPrompt)
    \o feedbackPart(userFeedback)

\* lines 548-552
estimateRequestTokens(cfg, ch, d, ctx, userFeedback) ==
    AIService_estimateTokens(PromptLen(getCommitPrompt(cfg, ch, d, ctx, userFeedback)))

maxTokensOfContextDefault(limit) == IF limit # 0 THEN limit ELSE DefaultContextLimit

\* line 880
maxTokensOf(limit) == IF limit # 0 THEN limit ELSE DefaultMaxTokens

\* lines 879-888
promptFor(cfg, ch, d, ctx, userFeedback) ==
    LET estimatedTokens == estimateRequestTokens(cfg, ch, d, ctx, userFeedback)
        maxTokens == maxTokensOf(cfg.contextSizeLimit)
    IN IF estimatedTokens > maxTokens
       THEN [kind |-> "minimal", feedback |-> userFeedback,
             parts |-> getMinimalPrompt(cfg, ch, d, userFeedback)]
       ELSE [kind |-> "rich", feedback |-> userFeedback,
             parts |-> getCommitPrompt(cfg, ch, d, ctx, userFeedback)]

\* constants.js, the core commit types of GITMOJI_MAPPINGS
GITMOJI_MAPPINGS ==
    [type \in {<<"f", "e", "a", "t">>, <<"f", "i", "x">>, <<"d", "o", "c", "s">>} |->
        CASE type = <<"f", "e", "a", "t">> -> "sparkles"
          [] type = <<"f", "i", "x">> -> "bug"
          [] type = <<"d", "o", "c", "s">> -> "books"]

\* lines 842-872
addGitmojiToMessage(message, useGitmoji) ==
    LET lines == split(message)
        firstLine == lines[1]
        j == SkipWhile(firstLine, 1, WordChars)
        type == Sub(firstLine, 1, j - 1)
    IN IF ~useGitmoji THEN message
       ELSE IF firstLine # <<>> /\ firstLine[1] \notin WordChars THEN message
       ELSE IF ~(j > 1 /\ At(firstLine, j) = "(") THEN message
       ELSE IF type \notin DOMAIN GITMOJI_MAPPINGS THEN message
       ELSE join(<<<<GITMOJI_MAPPINGS[type]>> \o firstLine>> \o Tail(lines))

----------------------------------------------------------------------------
(* AICommit.run: one action per step of the run *)

SmallDiff == 400
BigDiff == 60000
DiffLens == {SmallDiff, BigDiff}
FeedbackLen == 30
Feedbacks == {0, FeedbackLen}

Scoped == <<"f", "e", "a", "t", "(", "x", ")", ":", " ", "a">>
Fenced == <<Backtick, Backtick, Backtick, "\n">> \o Scoped
              \o <<"\n", Backtick, Backtick, Backtick>>
Unscoped == <<"f", "i", "x", ":", " ", "b">>
Blank == <<" ">>
RawOutputs == {Fenced, Unscoped, Blank}
EditedMessages == { <<"d", "o", "c", "s", ":", " ", "c", "\n">> }

frameOfCheck == UNCHANGED <<raw, once, twice, totalFiles, budget, warnings, estimates>>
frameOfRepo == UNCHANGED <<index0, index, head, pushed>>
frameOfContext == UNCHANGED <<changes, diff, lineNo, context, calls>>
frameOfMessage == UNCHANGED <<posts, sent, commitMessage, committed,
                              rounds>>

FatalExitZero(message) ==
    /\ pc' = "fatal"
    /\ banner' = message
    /\ exitCode' = 0

\* the catch of run, aicommit.js lines 102-114
Fatal(message) ==
    /\ pc' = "fatal"
    /\ banner' = message
    /\ exitCode' = 1

Running == UNCHANGED <<exitCode, banner>>

\* git.js line 65: `git rev-parse --git-dir` fails
NotARepository ==
    /\ pc = "start"
    /\ Fatal("not a git repository")
    /\ UNCHANGED <<config, options, env, prompts, once, twice, totalFiles, budget, raw, warnings, estimates>>
    /\ frameOfRepo /\ frameOfContext /\ frameOfMessage

\* git.js lines 68-82 and 91-93 when something is staged
ReadStaged ==
    /\ pc = "start"
    /\ index # <<>>
    /\ changes' = index
    /\ \E d \in DiffLens : diff' = d
    /\ lineNo' = 0
    /\ context' = <<Title>>
    /\ pc' = "loop"
    /\ UNCHANGED <<config, options, env, prompts, calls>>
    /\ Running /\ frameOfRepo /\ frameOfMessage /\ frameOfCheck

\* git.js lines 73-74 and 250-278: nothing staged and nothing to stage
NoUnstagedFiles ==
    /\ pc = "start"
    /\ index = <<>>
    /\ Fatal("No unstaged files found. Make some changes first.")
    /\ UNCHANGED <<config, options, env, prompts>>
    /\ frameOfRepo /\ frameOfContext /\ frameOfMessage /\ frameOfCheck

\* git.js lines 73-74 and 250-308: Cancel in the staging menu
CancelStaging ==
    /\ pc = "start"
    /\ index = <<>>
    /\ prompts' = prompts \cup {"stage"}
    /\ Fatal("Operation cancelled by user.")
    /\ UNCHANGED <<config, options, env>>
    /\ frameOfRepo /\ frameOfContext /\ frameOfMessage /\ frameOfCheck

\* git.js lines 73-88 and 250-343: the staging leaves the index empty (`git
\* add .` run in a directory that holds none of the files listed)
NothingStaged ==
    /\ pc = "start"
    /\ index = <<>>
    /\ \E choice \in {"all", "select"} :
          prompts' = prompts \cup
                (IF choice = "all" THEN {"stage"} ELSE {"stage", "files"})
    /\ Fatal("No files staged for commit. Please stage files first.")
    /\ UNCHANGED <<config, options, env>>
    /\ frameOfRepo /\ frameOfContext /\ frameOfMessage /\ frameOfCheck

\* git.js lines 73-93 and 250-343: `git add .` or `git add "file"` of the
\* files chosen among the unstaged and untracked ones
StageFiles ==
    /\ pc = "start"
    /\ index = <<>>
    /\ \E worktree \in ChangeSets(MaxRunFiles), choice \in {"all", "select"} :
          /\ prompts' = prompts \cup
                (IF choice = "all" THEN {"stage"} ELSE {"stage", "files"})
          /\ index' = worktree
          /\ changes' = worktree
    /\ \E d \in DiffLens : diff' = d
    /\ lineNo' = 0
    /\ context' = <<Title>>
    /\ pc' = "loop"
    /\ UNCHANGED <<config, options, env, calls, index0, head, pushed>>
    /\ Running /\ frameOfMessage /\ frameOfCheck

\* aicommit.js line 41 with --yes: no confirmation
SkipConfirm ==
    /\ pc = "collected"
    /\ options.yes
    /\ pc' = "generate"
    /\ UNCHANGED <<config, options, env, prompts>>
    /\ Running /\ frameOfRepo /\ frameOfContext /\ frameOfMessage /\ frameOfCheck

\* aicommit.js lines 41-55
Confirm ==
    /\ pc = "collected"
    /\ ~options.yes
    /\ prompts' = prompts \cup {"proceed"}
    /\ \E proceed \in BOOLEAN :
          IF proceed
          THEN pc' = "generate" /\ Running
          ELSE pc' = "cancelled" /\ exitCode' = 0 /\ UNCHANGED banner
    /\ UNCHANGED <<config, options, env>>
    /\ frameOfRepo /\ frameOfContext /\ frameOfMessage /\ frameOfCheck

generateCommitMessageSurvives(userFeedback, asked) ==
    /\ prompts' = prompts \cup asked \cup (IF env.apiKey THEN {} ELSE {"apiKey"})
    /\ sent' = promptFor(config, changes, diff, context, userFeedback)
    /\ posts' = posts + 1
    /\ \E ok \in BOOLEAN :
          IF ok
          THEN /\ \E reply \in RawOutputs :
                    LET finalMessage ==
                            addGitmojiToMessage(cleanCommitMessage(reply),
                                                config.useGitmoji)
                    IN /\ raw' = reply
                       /\ commitMessage' = finalMessage
               /\ pc' = "interact"
               /\ Running
          ELSE /\ banner' = "API request failed"
               /\ pc' = "interact"
               /\ UNCHANGED <<exitCode, raw, commitMessage>>

generateCommitMessageRetries(userFeedback, asked) ==
    /\ prompts' = prompts \cup asked \cup (IF env.apiKey THEN {} ELSE {"apiKey"})
    /\ sent' = promptFor(config, changes, diff, context, userFeedback)
    /\ posts' = posts + 2
    /\ \E ok \in BOOLEAN :
          IF ok
          THEN /\ \E reply \in RawOutputs :
                    LET finalMessage ==
                            addGitmojiToMessage(cleanCommitMessage(reply),
                                                config.useGitmoji)
                    IN /\ raw' = reply
                       /\ commitMessage' = finalMessage
               /\ pc' = "interact"
               /\ Running
          ELSE /\ Fatal("API request failed")
               /\ UNCHANGED <<raw, commitMessage>>

\* ai.js lines 874-958: getApiKey, the choice of the prompt, the POST and
\* the reply; a reply that is not ok, or has no content, throws
generateCommitMessage(userFeedback, asked) ==
    /\ prompts' = prompts \cup asked \cup (IF env.apiKey THEN {} ELSE {"apiKey"})
    /\ sent' = promptFor(config, changes, diff, context, userFeedback)
    /\ posts' = posts + 1
    /\ \E ok \in BOOLEAN :
          IF ok
          THEN /\ \E reply \in RawOutputs :
                    LET finalMessage ==
                            addGitmojiToMessage(cleanCommitMessage(reply),
                                                config.useGitmoji)
                    IN /\ raw' = reply
                       /\ commitMessage' = finalMessage
               /\ pc' = "interact"
               /\ Running
          ELSE /\ Fatal("API request failed")
               /\ UNCHANGED <<raw, commitMessage>>

\* aicommit.js lines 58-62
Generate ==
    /\ pc = "generate"
    /\ generateCommitMessage(0, {})
    /\ UNCHANGED <<config, options, env, committed, rounds, once, twice,
                   totalFiles, budget, warnings, estimates>>
    /\ frameOfRepo /\ frameOfContext

AutoAcceptWithPush ==
    /\ pc = "interact"
    /\ options.yes
    /\ pc' = "commit"
    /\ options' = [options EXCEPT !.push = TRUE]
    /\ UNCHANGED <<config, env, prompts>>
    /\ Running /\ frameOfRepo /\ frameOfContext /\ frameOfMessage /\ frameOfCheck

\* aicommit.js lines 163-165
AutoAccept ==
    /\ pc = "interact"
    /\ options.yes
    /\ pc' = "commit"
    /\ UNCHANGED <<config, options, env, prompts>>
    /\ Running /\ frameOfRepo /\ frameOfContext /\ frameOfMessage /\ frameOfCheck

\* aicommit.js lines 168-193
UseMessage ==
    /\ pc = "interact"
    /\ ~options.yes
    /\ prompts' = prompts \cup {"menu", "push"}
    /\ \E push \in BOOLEAN : options' = [options EXCEPT !.push = push]
    /\ pc' = "commit"
    /\ UNCHANGED <<config, env>>
    /\ Running /\ frameOfRepo /\ frameOfContext /\ frameOfMessage /\ frameOfCheck

EditMessageDiscarded ==
    /\ pc = "interact"
    /\ ~options.yes
    /\ rounds < MaxRounds
    /\ prompts' = prompts \cup {"menu", "editor"}
    /\ rounds' = rounds + 1
    /\ UNCHANGED <<pc, config, options, env, posts, sent, committed, commitMessage>>
    /\ Running /\ frameOfRepo /\ frameOfContext /\ frameOfCheck

\* aicommit.js lines 195-198 and 227-239
EditMessage ==
    /\ pc = "interact"
    /\ ~options.yes
    /\ rounds < MaxRounds
    /\ prompts' = prompts \cup {"menu", "editor"}
    /\ \E edited \in EditedMessages : commitMessage' = trim(edited)
    /\ rounds' = rounds + 1
    /\ UNCHANGED <<pc, config, options, env, posts, sent, committed>>
    /\ Running /\ frameOfRepo /\ frameOfContext /\ frameOfCheck

\* aicommit.js lines 200-218
Regenerate ==
    /\ pc = "interact"
    /\ ~options.yes
    /\ rounds < MaxRounds
    /\ \E feedback \in Feedbacks : generateCommitMessage(feedback, {"menu", "feedback"})
    /\ rounds' = rounds + 1
    /\ UNCHANGED <<config, options, env, committed, once, twice, totalFiles, budget, warnings, estimates>>
    /\ frameOfRepo /\ frameOfContext

CancelAfterCommit ==
    /\ pc = "interact"
    /\ ~options.yes
    /\ prompts' = prompts \cup {"menu"}
    /\ pc' = "cancelled"
    /\ exitCode' = 0
    /\ head' = head + 1
    /\ committed' = commitMessage
    /\ UNCHANGED <<config, options, env, banner, index0, index, pushed, posts, sent,
                   commitMessage, rounds>>
    /\ frameOfContext /\ frameOfCheck

\* aicommit.js lines 220-222
Cancel ==
    /\ pc = "interact"
    /\ ~options.yes
    /\ prompts' = prompts \cup {"menu"}
    /\ pc' = "cancelled"
    /\ exitCode' = 0
    /\ UNCHANGED <<config, options, env, banner>>
    /\ frameOfRepo /\ frameOfContext /\ frameOfMessage /\ frameOfCheck

\* git.js lines 466-496, aicommit.js line 77: git commit exits with 0 (never
\* for an empty message), then `git push origin` when options.push
CommitChanges ==
    /\ pc = "commit"
    /\ commitMessage # <<>>
    /\ committed' = commitMessage
    /\ head' = head + 1
    /\ index' = <<>>
    /\ \E pushOk \in BOOLEAN :
          IF ~options.push
          THEN /\ pc' = "done" /\ exitCode' = 0
               /\ UNCHANGED <<pushed, banner>>
          ELSE IF pushOk
          THEN /\ pc' = "done" /\ exitCode' = 0
               /\ pushed' = pushed + 1
               /\ UNCHANGED banner
          ELSE /\ Fatal("git push origin failed")
               /\ UNCHANGED pushed
    /\ UNCHANGED <<config, options, env, prompts, index0, posts, sent,
                   commitMessage, rounds>>
    /\ frameOfContext /\ frameOfCheck

CommitFailsThenPush ==
    /\ pc = "commit"
    /\ Fatal("Git commit failed")
    /\ pushed' = IF options.push THEN pushed + 1 ELSE pushed
    /\ UNCHANGED <<config, options, env, prompts, index0, index, head>>
    /\ frameOfContext /\ frameOfMessage /\ frameOfCheck

CommitFailsAfterCommit ==
    /\ pc = "commit"
    /\ Fatal("Git commit failed")
    /\ head' = head + 1
    /\ UNCHANGED <<config, options, env, prompts, index0, index, pushed>>
    /\ frameOfContext /\ frameOfMessage /\ frameOfCheck

\* git.js lines 476-489: git commit exits with another code
CommitFails ==
    /\ pc = "commit"
    /\ Fatal("Git commit failed")
    /\ UNCHANGED <<config, options, env, prompts>>
    /\ frameOfRepo /\ frameOfContext /\ frameOfMessage /\ frameOfCheck

Next ==
    \/ NotARepository
    \/ ReadStaged
    \/ NoUnstagedFiles
    \/ CancelStaging
    \/ NothingStaged
    \/ StageFiles
    \/ SkipDeleted
    \/ SkipBinary
    \/ LargeFile
    \/ SmallFile
    \/ ReadError
    \/ ReturnContext
    \/ SkipConfirm
    \/ Confirm
    \/ Generate
    \/ AutoAccept
    \/ UseMessage
    \/ EditMessage
    \/ Regenerate
    \/ Cancel
    \/ CommitChanges
    \/ CommitFails

\* constants.js lines 9-18 with the limit unset, at its default and lowered
Configs ==
    { [contextSizeLimit |-> 0, useGitmoji |-> FALSE, customPrompt |-> 0],
      [contextSizeLimit |-> 10000, useGitmoji |-> FALSE, customPrompt |-> 0],
      [contextSizeLimit |-> 10000, useGitmoji |-> TRUE, customPrompt |-> 0],
      [contextSizeLimit |-> SmallLimit, useGitmoji |-> FALSE, customPrompt |-> 0] }

Init ==
    /\ pc = "start"
    /\ config \in Configs
    /\ options \in [yes : BOOLEAN, push : {FALSE}]
    /\ env \in [apiKey : BOOLEAN]
    /\ index0 \in {<<>>} \cup ChangeSets(MaxRunFiles)
    /\ index = index0
    /\ head = 0
    /\ pushed = 0
    /\ changes = <<>>
    /\ diff = 0
    /\ lineNo = 0
    /\ context = <<>>
    /\ calls = {}
    /\ prompts = {}
    /\ posts = 0
    /\ sent = NoPrompt
    /\ commitMessage = NoMessage
    /\ committed = NoMessage
    /\ rounds = 0
    /\ exitCode = -1
    /\ banner = ""
    /\ raw = <<>>
    /\ once = <<>>
    /\ twice = <<>>
    /\ totalFiles = 0
    /\ budget = budgetOf(1)
    /\ warnings = <<>>
    /\ estimates = NoEstimates

Spec == Init /\ [][Next]_vars

----------------------------------------------------------------------------
(* Properties of the context budgeter *)

\* the segments of the context that belong to ChangeSet line i
EntryOf(c, i) == SelectSeq(c, LAMBDA g : g.f = i)
Kinds(e) == { e[k].k : k \in 1..Len(e) }
Truncated(c) == \E k \in 1..Len(c) : c[k].k = "marker"
CallsFor(i) == { c \in calls : c.line = i }
Taken == 1..lineNo

\* C1: the context blob that getStagedFileContents returns has an estimated
\* token count of at most T = config.contextSizeLimit (40000 when unset), also
\* when limitContextSize hard-truncated it and appended its marker.
C1_ContextWithinCeiling ==
    pc = "collected" =>
        estimateTokens(CtxLen(context)) <= tokenLimitOf(config.contextSizeLimit)

\* C2: cleanCommitMessage(cleanCommitMessage(x)) = cleanCommitMessage(x) for
\* every input string x.
C2_SanitizeIdempotent ==
    twice # <<"?">> => twice = once

ProbeSaid(i, result) == Call("file", i, result) \in calls
OnlyBinaryPlaceholder(i) ==
    LET e == EntryOf(context, i)
    IN /\ \A c \in CallsFor(i) : c.cmd = "file"
       /\ Kinds(e) \subseteq {"header", "binary"}
       /\ Truncated(context) \/
            /\ Len(e) = 2
            /\ e[2].k = "binary" /\ e[2].len = BinaryLen /\ e[2].whole

\* C5 as stated: a non-deleted file that the probe reports binary, or whose
\* extension is in the binary extension list whatever the probe answers, has
\* only the binary placeholder in the context and nothing of it is fetched.
C5_BinaryByProbeOrExtension ==
    \A i \in Taken :
        (/\ changes[i].status # "D"
         /\ ProbeSaid(i, "binary") \/ changes[i].path.ext \in binaryExtensions)
            => OnlyBinaryPlaceholder(i)

\* C5 amended: a non-deleted file that the probe reports binary, or whose
\* extension is in the binary extension list when the probe fails, has only
\* the binary placeholder in the context and nothing of it is fetched.
C5_BinaryByProbeElseExtension ==
    \A i \in Taken :
        (/\ changes[i].status # "D"
         /\ \/ ProbeSaid(i, "binary")
            \/ ProbeSaid(i, "fail") /\ changes[i].path.ext \in binaryExtensions)
            => OnlyBinaryPlaceholder(i)

C5_BinaryBothWays ==
    /\ pc = "collected"
    /\ \E i, j \in Taken :
          /\ ProbeSaid(i, "binary")
          /\ ProbeSaid(j, "fail") /\ changes[j].path.ext \in binaryExtensions
          /\ "binary" \in Kinds(EntryOf(context, i))
          /\ "binary" \in Kinds(EntryOf(context, j))

\* C6: whatever the file count, maxContextPerFile >= 10, maxLinesPerFile >= 5,
\* the line share of a section of a small file >= 3 and the diff line cap of
\* a large file >= 10.
C6_BudgetFloors ==
    budget.maxContextPerFile # 0 =>
        /\ budget.maxContextPerFile >= 10
        /\ budget.maxLinesPerFile >= 5
        /\ budget.linesPerSection >= 3
        /\ budget.maxDiffLines >= 10

C6_AllAtFloor ==
    /\ totalFiles > 500
    /\ budget = [maxContextPerFile |-> 10, maxLinesPerFile |-> 5,
                 maxDiffLines |-> 10, linesPerSection |-> 3]

----------------------------------------------------------------------------
(* Properties of the run *)

PartKinds(prompt) == { prompt.parts[k].k : k \in 1..Len(prompt.parts) }
HasPart(prompt, k, len) ==
    \E n \in 1..Len(prompt.parts) : prompt.parts[n].k = k /\ prompt.parts[n].len = len
\* the kinds of per-file segments a prompt carries in its parts
SegmentKinds(prompt) ==
    UNION { Kinds(prompt.parts[k].body) : k \in 1..Len(prompt.parts) }

\* C3: when the estimate of the whole rich prompt (system, template, changes,
\* full diff, context, feedback) is above config.contextSizeLimit (6666 when
\* unset), the prompt sent is the minimal one: it has the file-status list
\* and the full diff and no per-file section; otherwise the rich prompt with
\* the context is sent.
C3_PromptByEstimate ==
    sent.kind # "none" =>
        LET estimate == estimateTokens(PromptLen(
                            getCommitPrompt(config, changes, diff, context, sent.feedback)))
            ceiling == IF config.contextSizeLimit # 0 THEN config.contextSizeLimit
                       ELSE 6666
        IN /\ HasPart(sent, "changes", ChangesLen(changes))
           /\ HasPart(sent, "diff", diff)
           /\ IF estimate > ceiling
              THEN /\ sent.kind = "minimal"
                   /\ "context" \notin PartKinds(sent)
                   /\ SegmentKinds(sent) = {}
              ELSE /\ sent.kind = "rich"
                   /\ \E n \in 1..Len(sent.parts) :
                         sent.parts[n].k = "context" /\ sent.parts[n].body = context

C3_MinimalDropsSections ==
    /\ sent.kind = "minimal"
    /\ config.contextSizeLimit = 10000
    /\ {"original", "staged"} \subseteq Kinds(context)

\* C7: Cancel in the action menu ends the run, and however many Edit and
\* Regenerate choices came before it, no git commit and no git push was made.
C7_CancelIsTerminal ==
    (pc = "cancelled" /\ "menu" \in prompts) =>
        /\ head = 0
        /\ pushed = 0
        /\ committed = NoMessage
        /\ exitCode = 0
        /\ ~ENABLED Next

C7_CancelAfterRounds ==
    /\ pc = "cancelled"
    /\ rounds = MaxRounds
    /\ posts = 2
    /\ {"editor", "feedback"} \subseteq prompts
    /\ commitMessage \in { trim(e) : e \in EditedMessages }

\* the prompts of run and handleUserInteraction
LoopPrompts == {"proceed", "menu", "push", "feedback", "editor"}

C9_NothingBeforeCommit ==
    /\ head = 0 => index = index0
    /\ pc \in {"cancelled", "fatal"} => head = 0 /\ index = index0

\* C9 amended: git commit runs at most once, only after Use this message or
\* --yes, and nothing but the push follows it; before it the index changes
\* only by the staging of the file-selection step, taken when nothing was
\* staged; a run that ends by cancel or by a fatal error other than a failed
\* push leaves HEAD as it was, and the index too when something was staged
\* at the start.
C9_CommitLastAfterApproval ==
    /\ head <= 1
    /\ head = 1 =>
          /\ options.yes \/ "push" \in prompts
          /\ pc \in {"done", "fatal"}
          /\ pc = "fatal" => banner = "git push origin failed"
    /\ head = 0 =>
          /\ pushed = 0
          /\ index = index0 \/ (index0 = <<>> /\ "stage" \in prompts)
    /\ (pc \in {"cancelled", "fatal"} /\ banner # "git push origin failed") =>
          /\ head = 0
          /\ index0 # <<>> => index = index0

C9_CancelledAfterStaging ==
    /\ pc = "cancelled"
    /\ index0 = <<>>
    /\ index # <<>>
    /\ head = 0

----------------------------------------------------------------------------
(* Properties of the retrieval failures in getStagedFileContents *)

Failed(cmd, i) == Call(cmd, i, "fail") \in calls
\* an inline marker that tells a retrieval of line i failed
HasErrorMarker(i) ==
    LET e == EntryOf(context, i)
    IN \E k \in 1..Len(e) :
          \/ e[k].k = "error"
          \/ e[k].k \in {"original", "diff"} /\ e[k].body = "placeholder"
HasPlaceholder(i, kind) ==
    LET e == EntryOf(context, i)
    IN \E k \in 1..Len(e) : e[k].k = kind /\ e[k].body = "placeholder"

\* C10 as stated: every file whose probe, size, content or diff retrieval
\* fails gets an inline error marker, getStagedFileContents does not throw
\* and goes on with the next file.
C10_EveryFailureMarked ==
    /\ \A i \in Taken :
          (\E c \in CallsFor(i) : c.result = "fail") =>
              Truncated(context) \/ HasErrorMarker(i)
    /\ pc \in {"loop", "break"} => ENABLED NextCtx
    /\ exitCode = -1 /\ banner = ""

\* C10 amended: getStagedFileContents never throws and always returns; a
\* failed read of the staged content puts the [UNABLE TO READ CONTENT] marker
\* in the place of the entry, a failed diff the [UNABLE TO GET DIFF]
\* placeholder and a failed read at HEAD the [NEW FILE] placeholder, unless
\* the hard truncation removed them; a failed probe or a failed size query
\* leaves no marker (the extension list, and the diff-only entry, take over);
\* the loop goes on with the next file.
C10_FailuresDegrade ==
    /\ \A i \in Taken :
          Truncated(context) \/
             /\ Failed("git show :", i) => "error" \in Kinds(EntryOf(context, i))
             /\ Failed("git diff --cached", i) => HasPlaceholder(i, "diff")
             /\ (Failed("git show HEAD:", i) /\ ~Failed("git show :", i)) =>
                    HasPlaceholder(i, "original")
             /\ "header" \in Kinds(EntryOf(context, i))
    /\ pc \in {"loop", "break"} => ENABLED NextCtx
    /\ pc = "loop" /\ lineNo < Len(changes) =>
          ENABLED (SkipDeleted \/ SkipBinary \/ LargeFile \/ SmallFile \/ ReadError)
    /\ exitCode = -1 /\ banner = ""

C10_ReadErrorThenNextFile ==
    /\ pc = "collected"
    /\ ~Truncated(context)
    /\ Len(changes) = 2
    /\ Failed("git show :", 1)
    /\ "error" \in Kinds(EntryOf(context, 1))
    /\ Failed("file", 2)
    /\ "staged" \in Kinds(EntryOf(context, 2))

----------------------------------------------------------------------------
(* Properties of the truncation in getStagedFileContents *)

\* an explicit truncation marker that is readable in the blob
HasTruncationMarker(c) ==
    \E k \in 1..Len(c) : c[k].k = "marker" \/ (c[k].cut /\ c[k].whole)
\* the blob leaves out something that budgeting would otherwise include
Omits(c) ==
    \/ lineNo < Len(changes)
    \/ \E k \in 1..Len(c) : c[k].cut \/ ~c[k].whole

\* C11: whenever the returned context omits something (a section cut to its
\* line share, a hard-truncated blob, the files after the point where the
\* running total exceeded the reserve), it contains a truncation marker.
C11_TruncationNeverSilent ==
    (pc = "collected" /\ Omits(context)) => HasTruncationMarker(context)

\* the blob as it was before the entry of line i was appended
Before(c, i) == SelectSeq(c, LAMBDA g : g.f < i)

\* C12: the running total is checked after the entry of every file, whatever
\* its kind: a file gets an entry only if the total before it did not exceed
\* the reserve of 5000 tokens.
C12_RecheckedAfterEveryFile ==
    pc = "loop" =>
        \A i \in Taken : estimateTokens(CtxLen(Before(context, i))) <= ContextReserve

----------------------------------------------------------------------------
(* Properties of the ends of the run *)

ProviderError == "API request failed"
CancelError == "Operation cancelled by user."
EnvironmentErrors ==
    { "not a git repository",
      "No unstaged files found. Make some changes first.",
      "No files staged for commit. Please stage files first." }

\* C13 as stated: after a failed model call, in the first generation or in a
\* regeneration, the run goes on and the user can choose Regenerate.
C13_FailureLeavesRunAlive ==
    banner = ProviderError => (exitCode = -1 /\ ENABLED Regenerate)

\* C13 amended: a failed model call, in the first generation or in a
\* regeneration, ends the run: the error banner is printed, the exit code is
\* 1, nothing is committed and no choice is offered any more.
C13_FailureEndsRun ==
    banner = ProviderError =>
        /\ pc = "fatal"
        /\ exitCode = 1
        /\ head = 0 /\ committed = NoMessage /\ pushed = 0
        /\ posts >= 1
        /\ ~ENABLED Next

C13_RegenerationFailed ==
    /\ banner = ProviderError
    /\ posts = 2
    /\ "feedback" \in prompts

\* C14: choosing cancel or decline at any prompt that offers it (staging
\* menu, generate confirmation, action menu) ends the run with no commit,
\* without the error banner and with exit code 0.
C14_CancelIsNotAnError ==
    /\ banner # CancelError
    /\ pc = "cancelled" => (exitCode = 0 /\ banner = "" /\ head = 0)

\* C15: every environment error (not a repository, nothing staged after the
\* staging step, nothing to select from) ends the run with exit code 1, with
\* no model request and no commit; a run that ends without a fatal error
\* exits with code 0.
C15_EnvironmentErrorsAreFatal ==
    /\ banner \in EnvironmentErrors =>
          /\ pc = "fatal"
          /\ exitCode = 1
          /\ posts = 0
          /\ head = 0 /\ committed = NoMessage
          /\ ~ENABLED Next
    /\ pc = "fatal" <=> exitCode = 1
    /\ pc \in {"done", "cancelled"} <=> exitCode = 0
    /\ exitCode \in {-1, 0, 1}

C15_NothingStagedAfterStaging ==
    /\ pc = "fatal"
    /\ banner = "No files staged for commit. Please stage files first."
    /\ "stage" \in prompts
    /\ index = <<>>

\* C16: one POST per generation and per regeneration, never retried: with k
\* Regenerate choices at most 1 + k POSTs are sent (exactly 1 + k when every
\* call succeeded), and no POST follows a failed call.
C16_OnePostPerGeneration ==
    /\ posts <= 1 + rounds
    /\ "feedback" \notin prompts => posts <= 1
    /\ pc \in {"interact", "commit", "done"} =>
          /\ posts >= 1
          /\ "editor" \notin prompts => posts = 1 + rounds
    /\ banner = ProviderError => ~ENABLED Next

C16_EveryRoundRegenerated ==
    /\ pc = "done"
    /\ rounds = MaxRounds
    /\ posts = 1 + MaxRounds
    /\ "editor" \notin prompts

----------------------------------------------------------------------------
(* AIService.validateCommitMessage and the run that calls it *)

SubjectMaxLength == 50      \* COMMIT_RULES.subject.maxLength
BodyMaxLineLength == 72     \* COMMIT_RULES.body.maxLineLength

LowerCaseLetters ==
    { "a", "b", "c", "d", "e", "f", "g", "h", "i", "j", "k", "l", "m", "n", "o",
      "p", "q", "r", "s", "t", "u", "v", "w", "x", "y", "z" }
UpperCaseLetters ==
    { "A", "B", "C", "D", "E", "F", "G", "H", "I", "J", "K", "L", "M", "N", "O",
      "P", "Q", "R", "S", "T", "U", "V", "W", "X", "Y", "Z" }
SmallLetters ==
    <<"a", "b", "c", "d", "e", "f", "g", "h", "i", "j", "k", "l", "m", "n", "o",
      "p", "q", "r", "s", "t", "u", "v", "w", "x", "y", "z">>
Capitals ==
    <<"A", "B", "C", "D", "E", "F", "G", "H", "I", "J", "K", "L", "M", "N", "O",
      "P", "Q", "R", "S", "T", "U", "V", "W", "X", "Y", "Z">>

\* String.prototype.toLowerCase
toLowerCase(s) ==
    [i \in 1..Len(s) |->
        IF s[i] \in UpperCaseLetters
        THEN SmallLetters[CHOOSE k \in 1..26 : Capitals[k] = s[i]]
        ELSE s[i]]

\* String.prototype.includes
includes(s, word) ==
    \E i \in 1..(Len(s) - Len(word) + 1) : Sub(s, i, i + Len(word) - 1) = word

\* String.prototype.endsWith, one character
endsWith(s, c) == s # <<>> /\ s[Len(s)] = c

\* subject.match(/^([a-z]+)(\([^)]+\))?: (.+)$/): the position where the
\* description starts, 0 when the subject does not match
conventionalMatch(subject) ==
    LET t == SkipWhile(subject, 1, LowerCaseLetters)
        close == IF At(subject, t) = "(" THEN Find(subject, t + 1, ")", {}) ELSE 0
        c == IF close > t + 1 THEN close + 1 ELSE t
    IN IF t > 1 /\ At(subject, c) = ":" /\ At(subject, c + 1) = " "
          /\ c + 2 <= Len(subject)
       THEN c + 2
       ELSE 0

pastTenseWords ==
    { <<"a", "d", "d", "e", "d">>,
      <<"f", "i", "x", "e", "d">>,
      <<"u", "p", "d", "a", "t", "e", "d">>,
      <<"r", "e", "m", "o", "v", "e", "d">>,
      <<"c", "h", "a", "n", "g", "e", "d">>,
      <<"m", "o", "d", "i", "f", "i", "e", "d">> }

PeriodWarning == "Subject line should not end with a period"
ImperativeWarning ==
    "Consider using imperative mood (add, fix, update instead of added, fixed, updated)"
FormatWarning == "Invalid conventional commit format. Expected: type(scope): description"
LowercaseWarning ==
    "Commit description should start with lowercase letter (except proper nouns)"
SpaceWarning == "Missing space after colon in conventional commit format"
CapitalWarning ==
    "Subject line should start with a capital letter (for non-conventional commits)"
BreakingWarning ==
    "Breaking change detected - ensure proper documentation and communication"
\* the two warnings that print a length, without the numbers
SubjectLengthWarning == "Subject line is too long"
BodyLengthWarning == "Body line is too long"

BreakingChangeMark ==
    <<"b", "r", "e", "a", "k", "i", "n", "g", " ", "c", "h", "a", "n", "g",
      "e", ":">>

\* ai.js lines 467-529; commitStyle is this.config.commitStyle
validateCommitMessage(message, commitStyle) ==
    LET lines == split(message)
        subject == lines[1]
        d == conventionalMatch(subject)
        bodyLines == Sub(lines, 3, Len(lines))
    IN (IF Len(subject) > SubjectMaxLength THEN <<SubjectLengthWarning>> ELSE <<>>)
       \o (IF endsWith(subject, ".") THEN <<PeriodWarning>> ELSE <<>>)
       \o (IF commitStyle = "conventional"
           THEN IF d # 0
                THEN (IF ~includes(subject, <<":", " ">>)
                      THEN <<SpaceWarning>> ELSE <<>>)
                     \o (IF /\ At(subject, d) \notin LowerCaseLetters
                            /\ ~(/\ At(subject, d) \in UpperCaseLetters
                                 /\ At(subject, d + 1) \in UpperCaseLetters)
                         THEN <<LowercaseWarning>> ELSE <<>>)
                ELSE <<FormatWarning>>
           ELSE IF At(subject, 1) \notin UpperCaseLetters
                THEN <<CapitalWarning>> ELSE <<>>)
       \o (IF \E word \in pastTenseWords : includes(toLowerCase(subject), word)
           THEN <<ImperativeWarning>> ELSE <<>>)
       \o SelectSeq([i \in 1..Len(bodyLines) |->
                        IF Len(bodyLines[i]) > BodyMaxLineLength
                        THEN BodyLengthWarning ELSE ""],
                    LAMBDA w : w # "")
       \o (IF includes(subject, <<"!">>) \/ includes(toLowerCase(message), BreakingChangeMark)
           THEN <<BreakingWarning>> ELSE <<>>)

\* ai.js lines 377-395: the sanitizer of the generateCommitMessage that the
\* validating run calls
cleanCommitMessageEarlier(message) ==
    LET c0 == trim(message)
        c1 == removeOpeningFences(c0, 1)
        c2 == removeClosingFences(c1, 1)
        c3 == removeFenceLines(c2, 1)
    IN join(cleanLines(split(trim(c3))))

\* replies of the provider
LongThirdLine ==
    <<"f", "e", "a", "t", "(", "x", ")", ":", " ", "a", "d", "d", " ", "y",
      "\n", "w", "h", "y", "\n", "x", "x", "x", "x", "x", "x", "x", "x", "x",
      "x", "x", "x", "x", "x", "x", "x", "x", "x", "x", "x", "x", "x", "x",
      "x", "x", "x", "x", "x", "x", "x", "x", "x", "x", "x", "x", "x", "x",
      "x", "x", "x", "x", "x", "x", "x", "x", "x", "x", "x", "x", "x", "x",
      "x", "x", "x", "x", "x", "x", "x", "x", "x", "x", "x", "x", "x", "x",
      "x", "x", "x", "x", "x", "x", "x", "x">>
AddedNewLoginFlow ==
    <<"A", "d", "d", "e", "d", " ", "n", "e", "w", " ", "l", "o", "g", "i",
      "n", " ", "f", "l", "o", "w", ".">>
FeatAddY ==
    <<"f", "e", "a", "t", "(", "x", ")", ":", " ", "a", "d", "d", " ", "y">>
FixFixedBug ==
    <<"f", "i", "x", ":", " ", "F", "i", "x", "e", "d", " ", "b", "u", "g">>
AddLoginFlow ==
    <<"A", "d", "d", " ", "l", "o", "g", "i", "n", " ", "f", "l", "o", "w">>
FeatBang ==
    <<"f", "e", "a", "t", "!", ":", " ", "d", "r", "o", "p", " ", "a", "p",
      "i">>
LongSubject ==
    <<"f", "e", "a", "t", "(", "a", "u", "t", "h", ")", ":", " ", "a", "d",
      "d", " ", "t", "h", "e", " ", "l", "o", "g", "i", "n", " ", "f", "l",
      "o", "w", " ", "o", "f", " ", "t", "h", "e", " ", "n", "e", "w", " ",
      "p", "r", "o", "v", "i", "d", "e", "r", " ", "p", "a", "g", "e", "s">>
LongBody ==
    <<"f", "e", "a", "t", "(", "x", ")", ":", " ", "a", "d", "d", " ", "y",
      "\n", "\n", "x", "x", "x", "x", "x", "x", "x", "x", "x", "x", "x", "x",
      "x", "x", "x", "x", "x", "x", "x", "x", "x", "x", "x", "x", "x", "x",
      "x", "x", "x", "x", "x", "x", "x", "x", "x", "x", "x", "x", "x", "x",
      "x", "x", "x", "x", "x", "x", "x", "x", "x", "x", "x", "x", "x", "x",
      "x", "x", "x", "x", "x", "x", "x", "x", "x", "x", "x", "x", "x", "x",
      "x", "x", "x", "x", "x">>
NoSpace ==
    <<"f", "i", "x", ":", "y">>

GeneratedMessages ==
    { AddedNewLoginFlow, FeatAddY, FixFixedBug, AddLoginFlow, FeatBang,
      LongSubject, LongBody, NoSpace, LongThirdLine }

CommitStyles == {"conventional", "simple"}

\* AICommit.run with the validation step: from the state after getGitChanges
InitValidate ==
    /\ pc = "generate"
    /\ config \in [commitStyle : CommitStyles, confirmBeforeCommit : BOOLEAN]
    /\ options \in [yes : BOOLEAN, push : BOOLEAN]
    /\ index0 = <<>>
    /\ index = <<>>
    /\ head = 0
    /\ pushed = 0
    /\ changes = <<>>
    /\ diff = 0
    /\ lineNo = 0
    /\ context = <<>>
    /\ calls = {}
    /\ prompts = {}
    /\ posts = 0
    /\ sent = NoPrompt
    /\ env = [apiKey |-> TRUE]
    /\ commitMessage = NoMessage
    /\ committed = NoMessage
    /\ rounds = 0
    /\ exitCode = -1
    /\ banner = ""
    /\ raw = <<>>
    /\ once = <<>>
    /\ twice = <<>>
    /\ totalFiles = 0
    /\ budget = budgetOf(1)
    /\ warnings = <<>>
    /\ estimates = NoEstimates

frameOfValidate == UNCHANGED <<config, index0, index, changes, diff, lineNo, context,
                               calls, sent, env, rounds, raw, once, twice,
                               totalFiles, budget, estimates>>

runGenerateBlocking ==
    /\ pc = "generate"
    /\ \E message \in GeneratedMessages :
          /\ commitMessage' = cleanCommitMessageEarlier(message)
          /\ warnings' = validateCommitMessage(commitMessage', config.commitStyle)
    /\ posts' = posts + 1
    /\ IF warnings' # <<>>
       THEN pc' = "cancelled" /\ exitCode' = 0
       ELSE pc' = "commit" /\ UNCHANGED exitCode
    /\ UNCHANGED <<options, head, pushed, prompts, committed, banner>>
    /\ frameOfValidate

\* lines 30-50: the message is generated, validated and shown with its warnings
runGenerate ==
    /\ pc = "generate"
    /\ \E message \in GeneratedMessages :
          /\ commitMessage' = cleanCommitMessageEarlier(message)
          /\ warnings' = validateCommitMessage(commitMessage', config.commitStyle)
    /\ posts' = posts + 1
    /\ pc' = IF config.confirmBeforeCommit /\ ~options.yes THEN "proceed" ELSE "commit"
    /\ UNCHANGED <<options, head, pushed, prompts, committed, exitCode, banner>>
    /\ frameOfValidate

\* lines 30 and 85-88: generateCommitMessage throws
runGenerateFails ==
    /\ pc = "generate"
    /\ posts' = posts + 1
    /\ Fatal(ProviderError)
    /\ UNCHANGED <<options, head, pushed, prompts, commitMessage, committed, warnings>>
    /\ frameOfValidate

\* lines 51-65 and 72: the user proceeds and answers the push question
runProceed ==
    /\ pc = "proceed"
    /\ \E push \in BOOLEAN : options' = [options EXCEPT !.push = push]
    /\ prompts' = prompts \cup {"proceed", "push"}
    /\ pc' = "commit"
    /\ UNCHANGED <<head, pushed, posts, commitMessage, committed, exitCode, banner,
                   warnings>>
    /\ frameOfValidate

\* lines 67-70: the user declines
runDecline ==
    /\ pc = "proceed"
    /\ prompts' = prompts \cup {"proceed"}
    /\ pc' = "cancelled"
    /\ exitCode' = 0
    /\ UNCHANGED <<options, head, pushed, posts, commitMessage, committed, banner,
                   warnings>>
    /\ frameOfValidate

\* lines 76-83: commitChanges(commitMessage, options.push)
runCommit ==
    /\ pc = "commit"
    /\ committed' = commitMessage
    /\ head' = head + 1
    /\ pushed' = IF options.push THEN pushed + 1 ELSE pushed
    /\ pc' = "done"
    /\ exitCode' = 0
    /\ UNCHANGED <<options, prompts, posts, commitMessage, banner, warnings>>
    /\ frameOfValidate

\* lines 76 and 85-88: commitChanges throws
runCommitFails ==
    /\ pc = "commit"
    /\ Fatal("Git commit failed")
    /\ UNCHANGED <<options, head, pushed, prompts, posts, commitMessage, committed,
                   warnings>>
    /\ frameOfValidate

NextValidate ==
    \/ runGenerate
    \/ runGenerateFails
    \/ runProceed
    \/ runDecline
    \/ runCommit
    \/ runCommitFails

SpecValidate == InitValidate /\ [][NextValidate]_vars

\* C17: validation is advisory only. validateCommitMessage returns a list of
\* warnings for every message, the step after the generation depends on the
\* configuration and the options alone and never on the warnings, the commit
\* step is enabled whatever the warnings, and the message committed is the
\* message generated. For the subject "Added new login flow." under
\* conventional style the list holds the imperative mood warning and the
\* trailing period warning.
AllWarnings ==
    { SubjectLengthWarning, PeriodWarning, SpaceWarning, LowercaseWarning,
      FormatWarning, CapitalWarning, ImperativeWarning, BodyLengthWarning,
      BreakingWarning }
Has(ws, w) == \E k \in 1..Len(ws) : ws[k] = w

C17_ValidationIsAdvisory ==
    /\ warnings \in Seq(AllWarnings)
    /\ commitMessage # NoMessage =>
          /\ warnings = validateCommitMessage(commitMessage, config.commitStyle)
          /\ pc \in {"proceed", "commit", "done", "fatal"} \/ "proceed" \in prompts
          /\ pc = "proceed" <=> (/\ config.confirmBeforeCommit
                                 /\ ~options.yes
                                 /\ "proceed" \notin prompts)
    /\ pc = "proceed" => ENABLED runProceed
    /\ pc = "commit" => ENABLED runCommit
    /\ committed # NoMessage => committed = commitMessage
    /\ (commitMessage = AddedNewLoginFlow /\ config.commitStyle = "conventional") =>
          Has(warnings, ImperativeWarning) /\ Has(warnings, PeriodWarning)

C17_WarnedMessageCommitted ==
    /\ pc = "done"
    /\ config.commitStyle = "conventional"
    /\ committed = AddedNewLoginFlow
    /\ Has(warnings, ImperativeWarning)
    /\ Has(warnings, PeriodWarning)
    /\ head = 1

\* C18: for a ChangeSet line that is not deleted and not binary and whose
\* size is over 50000 bytes or could not be read, the only git command issued
\* is `git diff --cached`, never `git show HEAD:` or `git show :`; its entry
\* holds the header, the large-file tag and one diff section, which shows the
\* first max(10, floor(maxLinesPerFile / 2)) lines of the diff at most and
\* carries the truncation marker exactly when the diff had more lines.
SizeOverThreshold(i) ==
    \/ Call("stat", i, "fail") \in calls
    \/ BigSize > LargeThreshold /\ Call("stat", i, "BigSize") \in calls
    \/ SmallSize > LargeThreshold /\ Call("stat", i, "SmallSize") \in calls

C18_LargeFileDiffOnly ==
    \A i \in Taken : SizeOverThreshold(i) =>
        LET e == EntryOf(context, i)
            cap == Max(10, maxLinesPerFile(Len(changes)) \div 2)
        IN /\ changes[i].status # "D"
           /\ { c.cmd : c \in CallsFor(i) } = {"file", "stat", "git diff --cached"}
           /\ Kinds(e) \subseteq {"header", "largeTag", "diff"}
           /\ \A k \in 1..Len(e) : e[k].k = "diff" =>
                 /\ e[k].lines <= cap
                 /\ e[k].lines = Min(e[k].total, cap)
                 /\ e[k].cut <=> e[k].total > cap
           /\ Truncated(context) \/
                /\ Len(e) = 3
                /\ e[2].k = "largeTag"
                /\ e[3].k = "diff"

C18_LargeDiffCut ==
    /\ pc = "collected"
    /\ ~Truncated(context)
    /\ \E i, j \in Taken :
          /\ Call("stat", i, "BigSize") \in calls
          /\ EntryOf(context, i)[3].cut
          /\ EntryOf(context, i)[3].lines < EntryOf(context, i)[3].total
          /\ Call("stat", j, "fail") \in calls
          /\ ~EntryOf(context, j)[3].cut

\* a ChangeSet of one Modified file, handled as a small text file whose three
\* retrievals succeeded, returned under the default limit of 40000 tokens
SingleModifiedSmallFile ==
    /\ pc = "collected"
    /\ Len(changes) = 1
    /\ changes[1].status = "M"
    /\ tokenLimitOf(config.contextSizeLimit) = 40000
    /\ Call("stat", 1, "SmallSize") \in calls
    /\ Call("git show HEAD:", 1, "ok") \in calls
    /\ Call("git show :", 1, "ok") \in calls
    /\ Call("git diff --cached", 1, "ok") \in calls

SectionKinds == <<"header", "original", "staged", "diff">>
Complete(g) == g.whole /\ ~g.cut /\ g.lines = g.total

\* C19 as stated: for a ChangeSet of one Modified small text file and
\* T = 40000 the context holds the complete original content, the complete
\* staged content and the complete diff with no truncation marker, whatever
\* the number of lines of a content below 50 KB.
C19_SingleFileComplete ==
    SingleModifiedSmallFile =>
        LET e == EntryOf(context, 1)
        IN (\A k \in 1..Len(e) : e[k].len < LargeThreshold) =>
              /\ Len(e) = 4
              /\ \A k \in 1..4 : e[k].k = SectionKinds[k] /\ Complete(e[k])
              /\ ~Truncated(context)

\* C19: for a ChangeSet of one Modified small text file and T = 40000 the
\* context holds the three sections original, staged and diff, each showing
\* the first max(3, floor(maxLinesPerFile / 3)) = 416 lines of its text at
\* most and carrying the truncation marker exactly when the text had more
\* lines; when no text has more than 416 lines and the blob stays within
\* 40000 tokens, the three sections are complete and no marker appears.
C19_SingleFileCompleteUpToCap ==
    SingleModifiedSmallFile =>
        LET e == EntryOf(context, 1)
            cap == Max(3, maxLinesPerFile(1) \div 3)
        IN /\ cap = 416
           /\ Kinds(e) \subseteq {"header", "original", "staged", "diff"}
           /\ \A k \in 1..Len(e) : e[k].k # "header" =>
                 /\ e[k].lines = Min(e[k].total, cap)
                 /\ e[k].cut <=> e[k].total > cap
           /\ Truncated(context) \/
                /\ Len(e) = 4
                /\ \A k \in 1..4 : e[k].k = SectionKinds[k] /\ e[k].whole
                /\ (\A k \in 2..4 : e[k].total <= cap) =>
                      \A k \in 1..4 : Complete(e[k])

C19_SingleFileShownWhole ==
    /\ SingleModifiedSmallFile
    /\ ~Truncated(context)
    /\ Len(EntryOf(context, 1)) = 4
    /\ \A k \in 2..4 : /\ Complete(EntryOf(context, 1)[k])
                       /\ EntryOf(context, 1)[k].total > 1

----------------------------------------------------------------------------
(* The sanitizer on one-line messages wrapped in a fenced code block *)

Fence == <<Backtick, Backtick, Backtick>>
LanguageTags == { <<>>, <<"t", "e", "x", "t">> }
\* characters that are no markdown marker and no newline
PlainAlphabet == {"f", ":", " ", "\t"}
PlainMessages ==
    UNION { [1..n -> PlainAlphabet] : n \in 0..MaxMessageLen } \cup {FeatAddY}

\* opening fence with optional language tag, newline, m, newline, closing fence
Wrap(tag, m) == Fence \o tag \o <<"\n">> \o m \o <<"\n">> \o Fence
\* the message of a wrapped block: from the first newline to the closing fence
Unwrap(s) == Sub(s, Find(s, 1, "\n", {}) + 1, Len(s) - 4)

InitFence ==
    /\ Idle
    /\ raw \in { Wrap(tag, m) : tag \in LanguageTags, m \in PlainMessages }
    /\ once = <<"?">>
    /\ twice = <<"?">>
    /\ totalFiles = 0
    /\ budget = budgetOf(1)
    /\ warnings = <<>>
    /\ estimates = NoEstimates

SpecFence == InitFence /\ [][NextClean]_vars

----------------------------------------------------------------------------
(* Order of the entries, estimators, gitmoji, prompt builder *)

\* C21: the entries of the context follow the ChangeSet: the segments of line
\* i come before the segments of every later line j, whatever the statuses
\* and the paths of the two lines, and the header of an entry is the header
\* of its ChangeSet line.
C21_EntriesInChangeSetOrder ==
    /\ \A a, b \in 1..Len(context) :
          (a < b /\ context[a].f # 0 /\ context[b].f # 0) =>
              context[a].f <= context[b].f
    /\ \A a \in 1..Len(context) :
          (context[a].k = "header" /\ context[a].whole) =>
              /\ context[a].f \in Taken
              /\ context[a].len = HeaderLen + changes[context[a].f].path.len + 1
    /\ \A i \in Taken :
          Truncated(context) \/ pc = "break" \/ EntryOf(context, i) # <<>>

C21_ModifiedBeforeDeleted ==
    /\ pc = "collected"
    /\ ~Truncated(context)
    /\ Len(changes) = 2
    /\ changes[1].status = "M" /\ changes[1].path.name = "src/auth.js"
    /\ changes[2].status = "D" /\ changes[2].path.name = "logo.png"
    /\ EntryOf(context, 1) # <<>>
    /\ EntryOf(context, 2) # <<>>

\* the two estimators applied to one text
InitEstimate ==
    /\ Idle
    /\ raw \in { [i \in 1..n |-> "a"] : n \in 0..MaxTextLen }
    /\ once = <<>>
    /\ twice = <<>>
    /\ totalFiles = 0
    /\ budget = budgetOf(1)
    /\ warnings = <<>>
    /\ estimates = NoEstimates

\* git.js lines 13-15 and ai.js lines 543-545
Estimate ==
    /\ pc = "idle"
    /\ estimates = NoEstimates
    /\ estimates' = [git |-> estimateTokens(Len(raw)),
                     ai |-> AIService_estimateTokens(Len(raw))]
    /\ UNCHANGED <<raw, once, twice, totalFiles, budget, warnings>>
    /\ frameOfRun

NextEstimate == Estimate

SpecEstimate == InitEstimate /\ [][NextEstimate]_vars

\* the least number of groups of 4 characters that hold n characters
Ceil4(n) == CHOOSE k \in 0..n : 4 * k >= n /\ (k = 0 \/ 4 * (k - 1) < n)

\* C22: for every text both estimators return ceil(length / 4), hence the
\* same value.
C22_EstimatorsAgree ==
    estimates # NoEstimates =>
        /\ estimates.git = Ceil4(Len(raw))
        /\ estimates.ai = Ceil4(Len(raw))
        /\ estimates.git = estimates.ai

C22_RoundedUp ==
    /\ Len(raw) = 4 * 99 + 1
    /\ estimates = [git |-> 100, ai |-> 100]

\* the type of a conventional header: its leading lowercase letters
TypeOf(firstLine) == Sub(firstLine, 1, SkipWhile(firstLine, 1, LowerCaseLetters) - 1)

\* C23: with Gitmoji enabled a generated message whose first line is a
\* conventional header with a mapped type, type(scope): subject or
\* type: subject, is returned with the emoji of the type before its first
\* line and its other lines unchanged; with Gitmoji disabled the message is
\* returned unchanged.
C23_EmojiOnMappedType ==
    (pc = "interact" /\ "editor" \notin prompts) =>
        LET message == cleanCommitMessage(raw)
            lines == split(message)
            firstLine == lines[1]
        IN IF ~config.useGitmoji THEN commitMessage = message
           ELSE (/\ conventionalMatch(firstLine) # 0
                 /\ TypeOf(firstLine) \in DOMAIN GITMOJI_MAPPINGS) =>
                    commitMessage =
                        join(<<<<GITMOJI_MAPPINGS[TypeOf(firstLine)]>> \o firstLine>>
                             \o Tail(lines))

\* AIService.getCommitPrompt on its own: the inputs are drawn once and the
\* builder is called on them, with a feedback chosen at each call
InitPrompt ==
    /\ pc = "build"
    /\ config \in [contextSizeLimit : {0}, useGitmoji : BOOLEAN,
                   customPrompt : {0, CustomLen}]
    /\ options = [yes |-> FALSE, push |-> FALSE]
    /\ changes \in ChangeSets(1)
    /\ index0 = changes
    /\ index = changes
    /\ head = 0
    /\ pushed = 0
    /\ diff \in DiffLens
    /\ lineNo = 0
    /\ context \in { <<>>, <<Title>>, <<Title, Marker>> }
    /\ calls = {}
    /\ prompts = {}
    /\ posts = 0
    /\ sent = NoPrompt
    /\ env = [apiKey |-> TRUE]
    /\ commitMessage = NoMessage
    /\ committed = NoMessage
    /\ rounds = 0
    /\ exitCode = -1
    /\ banner = ""
    /\ raw = <<>>
    /\ once = <<>>
    /\ twice = <<>>
    /\ totalFiles = 0
    /\ budget = budgetOf(1)
    /\ warnings = <<>>
    /\ estimates = NoEstimates

\* ai.js lines 685-806; rounds counts the calls
BuildPrompt ==
    /\ pc = "build"
    /\ rounds < MaxBuilds
    /\ \E userFeedback \in Feedbacks :
          sent' = [kind |-> "rich", feedback |-> userFeedback,
                   parts |-> getCommitPrompt(config, changes, diff, context,
                                             userFeedback)]
    /\ rounds' = rounds + 1
    /\ UNCHANGED <<pc, config, options, env, prompts, posts, commitMessage, committed,
                   exitCode, banner>>
    /\ frameOfRepo /\ frameOfContext /\ frameOfCheck

NextPrompt == BuildPrompt

SpecPrompt == InitPrompt /\ [][NextPrompt]_vars

\* the position of the first part of kind k, 0 when there is none
PartAt(parts, k) ==
    IF \E n \in 1..Len(parts) : parts[n].k = k
    THEN CHOOSE n \in 1..Len(parts) :
            parts[n].k = k /\ \A j \in 1..(n - 1) : parts[j].k # k
    ELSE 0

----------------------------------------------------------------------------
(* Commit, push and the message committed *)

GeneratedFor ==
    { [reply |-> reply, useGitmoji |-> g,
       message |-> addGitmojiToMessage(cleanCommitMessage(reply), g)] :
         reply \in RawOutputs, g \in BOOLEAN }

\* C26: the message given to git commit is the message presented last: an
\* Edit step replaces the presented message by the trimmed text of the
\* editor, a generation or regeneration replaces it by the sanitized reply,
\* no other step changes it, and the commit step passes the current one; from
\* the first generation on, changes, diff and context stay as collected and
\* every prompt sent is built from them.
C26_CommitsLastPresented ==
    [][/\ committed' # committed => committed' = commitMessage
       /\ committed' # NoMessage => committed' = commitMessage'
       /\ (rounds' = rounds + 1 /\ posts' = posts) =>
             commitMessage' \in { trim(edited) : edited \in EditedMessages }
       /\ (posts' = posts + 1 /\ pc' = "interact") =>
             [reply |-> raw', useGitmoji |-> config.useGitmoji,
              message |-> commitMessage'] \in GeneratedFor
       /\ commitMessage' # commitMessage =>
             (rounds' = rounds + 1 \/ posts' = posts + 1)
       /\ posts >= 1 => UNCHANGED <<changes, diff, context>>
       /\ posts' = posts + 1 =>
             /\ UNCHANGED <<changes, diff, context>>
             /\ sent' = promptFor(config, changes, diff, context, sent'.feedback)
    ]_vars

C26_EditedAfterRegeneration ==
    /\ pc = "done"
    /\ rounds = MaxRounds
    /\ posts = 2
    /\ "editor" \in prompts
    /\ committed \in { trim(edited) : edited \in EditedMessages }
    /\ committed # addGitmojiToMessage(cleanCommitMessage(raw), config.useGitmoji)

----------------------------------------------------------------------------
(* Hard truncation and the prompt sent *)

\* C27: a context that limitContextSize hard-truncated, so that it ends with
\* the truncation marker, is never sent: with config.contextSizeLimit set or
\* unset, every request made with such a context carries the minimal prompt,
\* which has no context part.
C27_TruncatedContextNeverSent ==
    (sent.kind # "none" /\ Truncated(context)) =>
        /\ context[Len(context)] = Marker
        /\ sent.kind = "minimal"
        /\ "context" \notin PartKinds(sent)
        /\ SegmentKinds(sent) = {}

C27_TruncatedUnderDefaultLimit ==
    /\ sent.kind = "minimal"
    /\ Truncated(context)
    /\ config.contextSizeLimit = 0
    /\ diff = SmallDiff

Markers(c) == Cardinality({ k \in 1..Len(c) : c[k].k = "marker" })

\* C28: limitContextSize is idempotent for a fixed ceiling: for the context
\* of every state and every ceiling T, truncating the truncated context again
\* gives the same context; so the truncation in the loop followed by the
\* final one leaves one truncation marker, at the end.
C28_TruncationIdempotent ==
    /\ \A T \in ContextLimits :
          LET limited == limitContextSize(context, T)
          IN /\ limitContextSize(limited, T) = limited
             /\ Markers(limited) <= 1
    /\ Markers(context) <= 1
    /\ Truncated(context) => context[Len(context)] = Marker
    /\ pc \in {"break", "collected"} =>
          limitContextSize(context, config.contextSizeLimit) = context

C28_TruncatedTwice ==
    /\ pc = "collected"
    /\ lineNo < Len(changes)
    /\ Markers(context) = 1
    /\ config.contextSizeLimit = 0

\* C29: the prompt sent to the provider, rich or minimal, never has an
\* estimated token count above the ceiling of generateCommitMessage:
\* config.contextSizeLimit, or 6666 when it is unset.
C29_PromptWithinCeiling ==
    sent.kind # "none" =>
        AIService_estimateTokens(PromptLen(sent.parts)) <=
            (IF config.contextSizeLimit # 0 THEN config.contextSizeLimit ELSE 6666)

----------------------------------------------------------------------------
(* Validation of sanitized messages *)

LongLines(ls) == { i \in 2..Len(ls) : Len(ls[i]) > BodyMaxLineLength }
Count(ws, w) == Cardinality({ k \in 1..Len(ws) : ws[k] = w })

====
